---- MODULE Spec2Model ----
(***************************************************************************)
(* Model of macros/excel/work_exel.py: the spreadsheet engine that finds   *)
(* the header row of a sheet, maps column names to indexes, lists the      *)
(* unique values of a column, filters rows and writes the result.          *)
(*                                                                         *)
(* Text is a sequence of one-character strings, so that str.strip() and    *)
(* str.casefold() are computed and not assumed.  The five Cyrillic column  *)
(* names of colums_head are written in Latin transliteration:              *)
(*   "ФИО" -> FIO, "Должность" -> Dolzhnost, "Отдел" -> Otdel,             *)
(*   "Дата найма" -> Data najma, "Зарплата" -> Zarplata.                   *)
(***************************************************************************)
EXTENDS Integers, Sequences, FiniteSets, TLC

VARIABLES
    colums_head,   \* the module-level list of expected column names
    fs,            \* the file system: path -> workbook file, or NoFile
    handles,       \* the workbooks that are open (not yet closed or released)
    pc,            \* where the running ExcelService call stands; "idle" between calls
    frame,         \* the running call: its arguments and local variables
    outcome,       \* the call that has just finished, with what it returned or raised
    rows_in,       \* SpecDetect: the row sequence handed to the header detector
    found,         \* SpecDetect: what find_header_row_from_rows returned, or NotRun
    app            \* the window App: its attributes and the state of its widgets

engine_vars == <<fs, handles, pc, frame, outcome>>
vars == <<colums_head, fs, handles, pc, frame, outcome, rows_in, found, app>>

(***************************************************************************)
(* Bounds of the model and constants of the program.                       *)
(***************************************************************************)
\* longest tail of freely chosen rows in a header detector input
MaxDetectRows == 3

\* most data rows after the header rows of an input sheet
MaxRows == 2

\* largest value of the limit argument of get_unique_values
MaxLimit == 2

\* scan_rows: the default of find_header_row_from_rows, also the max_row /
\* min(50, nrows) cap of every caller
ScanRows == 50

(***************************************************************************)
(* Python values: None, str, int, float (one decimal digit), datetime.     *)
(***************************************************************************)
None == [t |-> "None"]
Str(chars) == [t |-> "str", s |-> chars]
Int_(n) == [t |-> "int", n |-> n]
Float(n, f) == [t |-> "float", n |-> n, f |-> f]
Datetime(d) == [t |-> "datetime", d |-> d]

Whitespace == {" ", "\t", "\n"}

UpperChars == <<"A","B","C","D","E","F","G","H","I","J","K","L","M",
                "N","O","P","Q","R","S","T","U","V","W","X","Y","Z">>
LowerChars == <<"a","b","c","d","e","f","g","h","i","j","k","l","m",
                "n","o","p","q","r","s","t","u","v","w","x","y","z">>

CaseMap == [c \in {UpperChars[i] : i \in 1..Len(UpperChars)} |->
               LowerChars[CHOOSE i \in 1..Len(UpperChars) : UpperChars[i] = c]]

\* str.casefold() on one character
casefold_char(c) == IF c \in DOMAIN CaseMap THEN CaseMap[c] ELSE c

\* str.casefold()
casefold(chars) == [i \in 1..Len(chars) |-> casefold_char(chars[i])]

\* str.lower(), as used on a path suffix
lower(chars) == [i \in 1..Len(chars) |-> casefold_char(chars[i])]

\* str.strip(): drop leading and trailing whitespace, keep inner whitespace
strip(chars) ==
    LET kept == {i \in 1..Len(chars) : chars[i] \notin Whitespace}
    IN  IF kept = {} THEN <<>>
        ELSE LET lo == CHOOSE i \in kept : \A j \in kept : i <= j
                 hi == CHOOSE i \in kept : \A j \in kept : j <= i
             IN  SubSeq(chars, lo, hi)

DigitChars == <<"0","1","2","3","4","5","6","7","8","9">>

RECURSIVE Digits(_)
\* str(n) for a natural number n
Digits(n) ==
    IF n < 10 THEN <<DigitChars[n + 1]>>
    ELSE Digits(n \div 10) \o <<DigitChars[(n % 10) + 1]>>

\* str(datetime) for the datetime xldate_as_datetime(d, 0) of a small serial d:
\* day d of January 1900 at midnight
datetime_str(d) ==
    <<"1","9","0","0","-","0","1","-">>
        \o (IF d < 10 THEN <<"0">> ELSE <<>>) \o Digits(d)
        \o <<" ","0","0",":","0","0",":","0","0">>

\* str(value)
py_str(value) ==
    CASE value.t = "str" -> value.s
      [] value.t = "int" -> Digits(value.n)
      [] value.t = "float" -> Digits(value.n) \o <<".">> \o Digits(value.f)
      [] value.t = "datetime" -> datetime_str(value.d)
      [] OTHER -> <<"N","o","n","e">>

norm_text(value) ==
    IF value = None THEN Str(<<>>) ELSE Str(strip(py_str(value)))

casefold_text(value) == Str(casefold(norm_text(value).s))

\* truthiness of a str
truthy(name) == name.s # <<>>

(***************************************************************************)
(* colums_head = ["ФИО", "Должность", "Отдел", "Дата найма", "Зарплата"]   *)
(***************************************************************************)
FIO == Str(<<"F","I","O">>)
Dolzhnost == Str(<<"D","o","l","z","h","n","o","s","t">>)
Otdel == Str(<<"O","t","d","e","l">>)
DataNajma == Str(<<"D","a","t","a"," ","n","a","j","m","a">>)
Zarplata == Str(<<"Z","a","r","p","l","a","t","a">>)

colums_head_initial == <<FIO, Dolzhnost, Otdel, DataNajma, Zarplata>>

Range(seq) == {seq[i] : i \in 1..Len(seq)}

(***************************************************************************)
(* find_header_row_from_rows                                               *)
(***************************************************************************)
expected_norm == {casefold_text(column_name) : column_name \in Range(colums_head)}

row_headers(row_values) ==
    [i \in 1..Len(row_values) |-> norm_text(row_values[i])]

row_score(headers, required_norm) ==
    LET header_norm == {casefold_text(header) :
                            header \in {h \in Range(headers) : truthy(h)}}
    IN  Cardinality(required_norm \cap header_norm)

\* One pass of the for loop over rows.  st is the loop's state: best_row_number
\* (row), best_headers (headers), best_score (score), and done once the loop
\* has been left by the break or by the return inside it, row and headers then
\* being the function's result.
header_step(rows, scan_rows, required_norm, row_number, st) ==
    IF st.done THEN st
    ELSE IF row_number > scan_rows THEN [st EXCEPT !.done = TRUE]
    ELSE LET headers == row_headers(rows[row_number])
             score == row_score(headers, required_norm)
         IN  IF score = Cardinality(required_norm)
             THEN [done |-> TRUE, row |-> row_number, headers |-> headers,
                   score |-> IF score > st.score THEN score ELSE st.score]
             ELSE IF score > st.score
             THEN [done |-> FALSE, row |-> row_number, headers |-> headers,
                   score |-> score]
             ELSE st

\* the loop body with >= for > and without the return on a perfect score
header_step_last_wins(rows, scan_rows, required_norm, row_number, st) ==
    IF st.done THEN st
    ELSE IF row_number > scan_rows THEN [st EXCEPT !.done = TRUE]
    ELSE LET headers == row_headers(rows[row_number])
             score == row_score(headers, required_norm)
         IN  IF score >= st.score
             THEN [done |-> FALSE, row |-> row_number, headers |-> headers,
                   score |-> score]
             ELSE st

RECURSIVE header_loop(_, _, _, _, _, _)
\* header_step for row_number = lo, lo + 1, ..., hi in this order, stopping once
\* the loop has been left (the range is walked in halves, which keeps the
\* evaluation shallow and changes no result)
header_loop(rows, scan_rows, required_norm, lo, hi, st) ==
    IF lo > hi THEN st
    ELSE IF lo = hi THEN header_step(rows, scan_rows, required_norm, lo, st)
    ELSE LET mid == (lo + hi) \div 2
             half == header_loop(rows, scan_rows, required_norm, lo, mid, st)
         IN  IF half.done THEN half
             ELSE header_loop(rows, scan_rows, required_norm, mid + 1, hi, half)

RECURSIVE header_loop_last_wins(_, _, _, _, _, _)
header_loop_last_wins(rows, scan_rows, required_norm, lo, hi, st) ==
    IF lo > hi THEN st
    ELSE IF lo = hi THEN header_step_last_wins(rows, scan_rows, required_norm, lo, st)
    ELSE LET mid == (lo + hi) \div 2
             half == header_loop_last_wins(rows, scan_rows, required_norm, lo, mid, st)
         IN  IF half.done THEN half
             ELSE header_loop_last_wins(rows, scan_rows, required_norm, mid + 1, hi, half)

\* best_row_number = 1, best_headers = [], best_score = -1
header_start == [done |-> FALSE, row |-> 1, headers |-> <<>>, score |-> -1]

find_header_row_last_wins(rows, scan_rows) ==
    LET st == header_loop_last_wins(rows, scan_rows, expected_norm, 1, Len(rows),
                                    header_start)
    IN  <<st.row, st.headers>>

\* the detector without its scan_rows cap
find_header_row_uncapped(rows, scan_rows) ==
    LET st == header_loop(rows, Len(rows), expected_norm, 1, Len(rows), header_start)
    IN  <<st.row, st.headers>>

find_header_row_from_rows(rows, scan_rows) ==
    LET st == header_loop(rows, scan_rows, expected_norm, 1, Len(rows), header_start)
    IN  <<st.row, st.headers>>

(***************************************************************************)
(* Workbook files.  A sheet is a sequence of rows of stored cells; the two *)
(* readers decode the same stored cell differently.                        *)
(***************************************************************************)
CEmpty == [c |-> "empty"]
CText(chars) == [c |-> "text", s |-> chars]
CNumber(n, f) == [c |-> "number", n |-> n, f |-> f]
CDate(d) == [c |-> "date", d |-> d]

NoFile == [t |-> "NoFile"]
\* origin tells a file that was given from one that save_xlsx wrote
Workbook(rows, origin) == [t |-> "Workbook", rows |-> rows, origin |-> origin]

Path(stem, suffix) == [stem |-> stem, suffix |-> suffix]
InXlsx == Path("data", <<".","x","l","s","x">>)
InXls == Path("data", <<".","X","L","S">>)
InCsv == Path("data", <<".","c","s","v">>)
OutXlsx == Path("filtered_result", <<".","X","l","s","x">>)
OutXlsm == Path("filtered_result", <<".","x","l","s","m">>)
Paths == {InXlsx, InXls, InCsv, OutXlsx, OutXlsm}

NoExc == [kind |-> "none"]
Error(kind, arg) == [kind |-> kind, arg |-> arg]
NoFrame == [op |-> "none"]
NoOutcome == [op |-> "none"]

Format(name) == [t |-> "format", name |-> name]

\* get_excel_format: "xlrd", "openpyxl", or the ValueError it raises
get_excel_format(path) ==
    LET format_exel == lower(path.suffix)
    IN  IF format_exel = <<".","x","l","s">> THEN Format("xlrd")
        ELSE IF format_exel \in {<<".","x","l","s","x">>, <<".","x","l","s","m">>}
        THEN Format("openpyxl")
        ELSE Error("UnsupportedFormat", format_exel)

\* openpyxl (data_only): the value of a stored cell
openpyxl_value(cell) ==
    CASE cell.c = "empty" -> None
      [] cell.c = "text" -> Str(cell.s)
      [] cell.c = "number" -> IF cell.f = 0 THEN Int_(cell.n) ELSE Float(cell.n, cell.f)
      [] cell.c = "date" -> Datetime(cell.d)

\* worksheet.iter_rows(min_row, max_row): rows are as wide as their last cell
openpyxl_iter_rows(sheet, min_row, max_row) ==
    LET last == IF max_row < Len(sheet) THEN max_row ELSE Len(sheet)
    IN  [k \in 1..(IF last >= min_row THEN last - min_row + 1 ELSE 0) |->
            [j \in 1..Len(sheet[min_row + k - 1]) |->
                openpyxl_value(sheet[min_row + k - 1][j])]]

\* xlrd: sheet.nrows, sheet.ncols
xlrd_nrows(sheet) == Len(sheet)
xlrd_ncols(sheet) ==
    IF sheet = <<>> THEN 0
    ELSE LET widths == {Len(sheet[i]) : i \in 1..Len(sheet)}
         IN  CHOOSE w \in widths : \A v \in widths : v <= w

\* xlrd: sheet.cell(row_index, col_index), 0-based, rows padded to ncols
xlrd_cell(sheet, row_index, col_index) ==
    IF col_index < Len(sheet[row_index + 1])
    THEN sheet[row_index + 1][col_index + 1]
    ELSE CEmpty

\* xlrd: cell.value, every number and date serial a float, an empty cell ''
xlrd_raw_value(cell) ==
    CASE cell.c = "empty" -> Str(<<>>)
      [] cell.c = "text" -> Str(cell.s)
      [] cell.c = "number" -> Float(cell.n, cell.f)
      [] cell.c = "date" -> Float(cell.d, 0)

\* xlrd: sheet.row_values(row_index)
xlrd_row_values(sheet, row_index) ==
    [j \in 1..xlrd_ncols(sheet) |-> xlrd_raw_value(xlrd_cell(sheet, row_index, j - 1))]

\* xldate_as_datetime(serial, datemode): datetime cannot hold a day past
\* 9999-12-31 (serial 2958465) and raises OverflowError
xldate_as_datetime(serial) ==
    IF serial > 2958465 THEN Error("OverflowError", serial) ELSE Datetime(serial)

\* read_xls_cell_value: the decoded value, or the error raised while decoding
read_xls_cell_value(sheet, row_index, col_index) ==
    LET cell == xlrd_cell(sheet, row_index, col_index)
    IN  CASE cell.c = "date" -> xldate_as_datetime(cell.d)
          [] cell.c = "number" ->
                IF cell.f = 0 THEN Int_(cell.n) ELSE Float(cell.n, cell.f)
          [] OTHER -> xlrd_raw_value(cell)

IsError(v) == "kind" \in DOMAIN v

\* the map keeping the first position of a name that occurs again
map_columns_to_indexes_first_wins(headers) ==
    [name \in {h \in Range(headers) : truthy(h)} |->
        LET at == {i \in 1..Len(headers) : headers[i] = name}
        IN  (CHOOSE i \in at : \A j \in at : i <= j) - 1]

\* map_columns_to_indexes: a later equal name overwrites an earlier one
map_columns_to_indexes(headers) ==
    [name \in {h \in Range(headers) : truthy(h)} |->
        LET at == {i \in 1..Len(headers) : headers[i] = name}
        IN  (CHOOSE i \in at : \A j \in at : j <= i) - 1]

\* the first rows handed to the header detector by every operation
first_rows(backend, sheet) ==
    IF backend = "openpyxl"
    THEN openpyxl_iter_rows(sheet, 1, ScanRows)
    ELSE [k \in 1..(IF ScanRows < xlrd_nrows(sheet) THEN ScanRows ELSE xlrd_nrows(sheet)) |->
            xlrd_row_values(sheet, k - 1)]

(***************************************************************************)
(* The context managers OpenPyXLWorkbook, XLRDBook and NewWorkbook.        *)
(***************************************************************************)
Handle(cm, path) == [cm |-> cm, path |-> path]

context_manager(backend) ==
    CASE backend = "openpyxl" -> "OpenPyXLWorkbook"
      [] backend = "xlrd" -> "XLRDBook"
      [] OTHER -> "NewWorkbook"

\* __exit__ that closes the workbook only when the block raised nothing
cm_exit_keeps_open_on_error(open, handle, exc) ==
    [handles |-> IF exc = NoExc THEN open \ {handle} ELSE open, suppress |-> FALSE]

\* __exit__: close (release) the workbook __enter__ opened and return False
cm_exit(open, handle, exc) ==
    [handles |-> open \ {handle}, suppress |-> FALSE]

(***************************************************************************)
(* validate_columns: NoExc, or the ValueError it raises                    *)
(***************************************************************************)
\* validate_columns with its two checks in the other order
validate_columns_missing_first(column_to_index, filter_column) ==
    LET missing_columns ==
            SelectSeq(colums_head, LAMBDA col : col \notin DOMAIN column_to_index)
    IN  IF missing_columns # <<>>
        THEN Error("MissingRequiredColumns", missing_columns)
        ELSE IF filter_column \notin DOMAIN column_to_index
        THEN Error("ColumnNotFound", filter_column)
        ELSE NoExc

\* validate_columns naming only the first missing column
validate_columns_first_missing_only(column_to_index, filter_column) ==
    IF filter_column \notin DOMAIN column_to_index
    THEN Error("ColumnNotFound", filter_column)
    ELSE LET missing_columns ==
                 SelectSeq(colums_head, LAMBDA col : col \notin DOMAIN column_to_index)
         IN  IF missing_columns # <<>>
             THEN Error("MissingRequiredColumns", <<Head(missing_columns)>>)
             ELSE NoExc

\* validate_columns looking for the expected columns without regard to case
validate_columns_ignoring_case(column_to_index, filter_column) ==
    IF filter_column \notin DOMAIN column_to_index
    THEN Error("ColumnNotFound", filter_column)
    ELSE LET keys == {casefold_text(name) : name \in DOMAIN column_to_index}
             missing_columns ==
                 SelectSeq(colums_head, LAMBDA col : casefold_text(col) \notin keys)
         IN  IF missing_columns # <<>>
             THEN Error("MissingRequiredColumns", missing_columns)
             ELSE NoExc

validate_columns(column_to_index, filter_column) ==
    IF filter_column \notin DOMAIN column_to_index
    THEN Error("ColumnNotFound", filter_column)
    ELSE LET missing_columns ==
                 SelectSeq(colums_head, LAMBDA col : col \notin DOMAIN column_to_index)
         IN  IF missing_columns # <<>>
             THEN Error("MissingRequiredColumns", missing_columns)
             ELSE NoExc

(***************************************************************************)
(* The data loops.  A loop state holds the loop's variables, scanned (the  *)
(* data rows the loop has read), done (left by break) and exc (raised).    *)
(***************************************************************************)
\* the value of column col_index in the data row at 1-based sheet row r:
\* a value, an Error raised while decoding, or Absent when the row has no
\* such column
Absent == [t |-> "Absent"]

column_value(backend, sheet, r, col_index) ==
    IF backend = "openpyxl"
    THEN IF col_index < Len(sheet[r]) THEN openpyxl_value(sheet[r][col_index + 1])
         ELSE Absent
    ELSE IF col_index < xlrd_ncols(sheet) THEN read_xls_cell_value(sheet, r - 1, col_index)
         ELSE Absent

unique_start == [seen |-> {}, result_values |-> <<>>, scanned |-> 0,
                 done |-> FALSE, exc |-> NoExc]

\* the body of the for loop of get_unique_values for the row at sheet row r
unique_step(backend, sheet, r, target_col_index, limit, st) ==
    LET raw_value == column_value(backend, sheet, r, target_col_index)
        read == [st EXCEPT !.scanned = @ + 1]
    IN  IF raw_value = Absent THEN read
        ELSE IF IsError(raw_value) THEN [read EXCEPT !.exc = raw_value, !.done = TRUE]
        ELSE LET value_text == norm_text(raw_value)
                 value_key == Str(casefold(value_text.s))
             IN  IF ~truthy(value_text) THEN read
                 ELSE IF value_key \in st.seen THEN read
                 ELSE LET result_values == Append(st.result_values, value_text)
                      IN  [read EXCEPT !.seen = @ \cup {value_key},
                                       !.result_values = result_values,
                                       !.done = Len(result_values) >= limit]

RECURSIVE unique_loop(_, _, _, _, _, _)
\* for row_values in data_rows / for row_index in range(start_row_index, nrows)
unique_loop(backend, sheet, r, target_col_index, limit, st) ==
    IF st.done \/ r > Len(sheet) THEN st
    ELSE unique_loop(backend, sheet, r + 1, target_col_index, limit,
                     unique_step(backend, sheet, r, target_col_index, limit, st))

filter_start == [result_rows |-> <<>>, scanned |-> 0, done |-> FALSE, exc |-> NoExc]

\* is prefix a prefix of text
IsPrefix(prefix, text) ==
    Len(prefix.s) <= Len(text.s) /\ SubSeq(text.s, 1, Len(prefix.s)) = prefix.s

\* the loop body keeping every row whose value starts with the filter value
filter_step_prefix_match(backend, sheet, r, filter_col_index, keep_col_indices, target_value_key, st) ==
    LET at_filter == column_value(backend, sheet, r, filter_col_index)
        cell_value == IF at_filter = Absent THEN None ELSE at_filter
        read == [st EXCEPT !.scanned = @ + 1]
    IN  IF IsError(cell_value) THEN [read EXCEPT !.exc = cell_value, !.done = TRUE]
        ELSE IF ~IsPrefix(target_value_key, casefold_text(cell_value)) THEN read
        ELSE LET kept == [k \in 1..Len(keep_col_indices) |->
                             column_value(backend, sheet, r, keep_col_indices[k])]
                 failed == {k \in 1..Len(kept) : IsError(kept[k])}
                 output_row == [k \in 1..Len(kept) |->
                                   IF kept[k] = Absent THEN None ELSE kept[k]]
             IN  IF failed # {}
                 THEN [read EXCEPT
                          !.exc = kept[CHOOSE k \in failed : \A j \in failed : k <= j],
                          !.done = TRUE]
                 ELSE [read EXCEPT !.result_rows = Append(@, output_row)]

\* the body of the for loop of filter_rows for the row at sheet row r
filter_step(backend, sheet, r, filter_col_index, keep_col_indices, target_value_key, st) ==
    LET at_filter == column_value(backend, sheet, r, filter_col_index)
        cell_value == IF at_filter = Absent THEN None ELSE at_filter
        read == [st EXCEPT !.scanned = @ + 1]
    IN  IF IsError(cell_value) THEN [read EXCEPT !.exc = cell_value, !.done = TRUE]
        ELSE IF casefold_text(cell_value) # target_value_key THEN read
        ELSE LET kept == [k \in 1..Len(keep_col_indices) |->
                             column_value(backend, sheet, r, keep_col_indices[k])]
                 failed == {k \in 1..Len(kept) : IsError(kept[k])}
                 output_row == [k \in 1..Len(kept) |->
                                   IF kept[k] = Absent THEN None ELSE kept[k]]
             IN  IF failed # {}
                 THEN [read EXCEPT
                          !.exc = kept[CHOOSE k \in failed : \A j \in failed : k <= j],
                          !.done = TRUE]
                 ELSE [read EXCEPT !.result_rows = Append(@, output_row)]

RECURSIVE filter_loop(_, _, _, _, _, _, _)
\* for row_values in iter_rows(...) / for row_index in range(start_row_index, nrows)
filter_loop(backend, sheet, r, filter_col_index, keep_col_indices, target_value_key, st) ==
    IF st.done \/ r > Len(sheet) THEN st
    ELSE filter_loop(backend, sheet, r + 1, filter_col_index, keep_col_indices,
                     target_value_key,
                     filter_step(backend, sheet, r, filter_col_index, keep_col_indices,
                                 target_value_key, st))

(***************************************************************************)
(* save_xlsx: what openpyxl stores for an appended row                     *)
(***************************************************************************)
stored_cell(value) ==
    CASE value.t = "None" -> CEmpty
      [] value.t = "str" -> CText(value.s)
      [] value.t = "int" -> CNumber(value.n, 0)
      [] value.t = "float" -> CNumber(value.n, value.f)
      [] value.t = "datetime" -> CDate(value.d)

\* cells without a value are not written: a stored row ends at its last value
stored_row(row_values) ==
    LET filled == {j \in 1..Len(row_values) : row_values[j] # None}
        width == IF filled = {} THEN 0 ELSE CHOOSE j \in filled : \A k \in filled : k <= j
    IN  [j \in 1..width |-> stored_cell(row_values[j])]

\* the suffix test of save_xlsx made on the suffix as written
save_xlsx_suffix_error_case_sensitive(output_path) ==
    IF output_path.suffix # <<".","x","l","s","x">>
    THEN Error("InvalidOutputFormat", output_path.suffix)
    ELSE NoExc

\* save_xlsx: NoExc, or the ValueError its suffix test raises
save_xlsx_suffix_error(output_path) ==
    IF lower(output_path.suffix) # <<".","x","l","s","x">>
    THEN Error("InvalidOutputFormat", output_path.suffix)
    ELSE NoExc

\* a sheet written without its header row
written_sheet_without_header(headers, rows) ==
    [k \in 1..Len(rows) |-> stored_row(rows[k])]

\* output_sheet.append(headers); for row_values in rows: output_sheet.append(row_values)
written_sheet(headers, rows) ==
    <<stored_row(headers)>> \o [k \in 1..Len(rows) |-> stored_row(rows[k])]

(***************************************************************************)
(* The calls of ExcelService, each in steps: the checks before the with    *)
(* block, __enter__, the block up to the data loop, the data loop,         *)
(* __exit__.                                                               *)
(***************************************************************************)
NoRet == [t |-> "NoRet"]

NewFrame(op, args, backend, path) ==
    [op |-> op, args |-> args, backend |-> backend,
     handle |-> Handle(context_manager(backend), path),
     loc |-> <<>>, ret |-> NoRet, exc |-> NoExc, scanned |-> 0]

Raised(op, args, exc, scanned) ==
    [op |-> op, args |-> args, status |-> "raised", exc |-> exc, value |-> NoRet,
     scanned |-> scanned]

Returned(op, args, value, scanned) ==
    [op |-> op, args |-> args, status |-> "returned", exc |-> NoExc, value |-> value,
     scanned |-> scanned]

\* a call that raises before its with statement
RaiseBeforeWith(op, args, exc) ==
    /\ outcome' = Raised(op, args, exc, 0)
    /\ UNCHANGED <<fs, handles, pc, frame>>

\* a call that reaches its with statement; the caller has let go of what the
\* call before returned
StartWith(op, args, backend, path) ==
    /\ frame' = NewFrame(op, args, backend, path)
    /\ pc' = "enter"
    /\ outcome' = NoOutcome
    /\ UNCHANGED <<fs, handles>>

Call_read_headers(exel_path) ==
    /\ pc = "idle"
    /\ LET args == [exel_path |-> exel_path]
           backend == get_excel_format(exel_path)
       IN  IF IsError(backend)
           THEN RaiseBeforeWith("read_headers", args, backend)
           ELSE StartWith("read_headers", args, backend.name, exel_path)
    /\ UNCHANGED <<colums_head, rows_in, found, app>>

Call_get_unique_values(exel_path, column_name, limit) ==
    /\ pc = "idle"
    /\ LET args == [exel_path |-> exel_path, column_name |-> column_name, limit |-> limit]
           backend == get_excel_format(exel_path)
       IN  IF IsError(backend)
           THEN RaiseBeforeWith("get_unique_values", args, backend)
           ELSE StartWith("get_unique_values", args, backend.name, exel_path)
    /\ UNCHANGED <<colums_head, rows_in, found, app>>

Call_filter_rows(request) ==
    /\ pc = "idle"
    /\ IF fs[request.input_path] = NoFile
       THEN RaiseBeforeWith("filter_rows", request,
                            Error("FileNotFound", request.input_path))
       ELSE LET engine == get_excel_format(request.input_path)
            IN  IF IsError(engine)
                THEN RaiseBeforeWith("filter_rows", request, engine)
                ELSE StartWith("filter_rows", request, engine.name, request.input_path)
    /\ UNCHANGED <<colums_head, rows_in, found, app>>

\* save_xlsx of the headers and rows the last call, a filter_rows, returned
Call_save_xlsx(output_path) ==
    /\ pc = "idle"
    /\ outcome.op = "filter_rows" /\ outcome.status = "returned"
    /\ LET args == [output_path |-> output_path, headers |-> outcome.value[1],
                    rows |-> outcome.value[2]]
           invalid == save_xlsx_suffix_error(output_path)
       IN  IF invalid # NoExc
           THEN RaiseBeforeWith("save_xlsx", args, invalid)
           ELSE StartWith("save_xlsx", args, "new", output_path)
    /\ UNCHANGED <<colums_head, rows_in, found, app>>

\* __enter__: load_workbook / xlrd.open_workbook / Workbook()
Enter ==
    /\ pc = "enter"
    /\ IF frame.backend # "new" /\ fs[frame.handle.path] = NoFile
       THEN /\ outcome' = Raised(frame.op, frame.args,
                                 Error("FileNotFound", frame.handle.path), 0)
            /\ pc' = "idle"
            /\ frame' = NoFrame
            /\ UNCHANGED handles
       ELSE /\ handles' = handles \cup {frame.handle}
            /\ pc' = "body"
            /\ UNCHANGED <<frame, outcome>>
    /\ UNCHANGED <<colums_head, fs, rows_in, found, app>>

\* the sheet the running call reads
Sheet == fs[frame.handle.path].rows

Body_read_headers ==
    /\ pc = "body" /\ frame.op = "read_headers"
    /\ LET detected == find_header_row_from_rows(first_rows(frame.backend, Sheet), ScanRows)
       IN  frame' = [frame EXCEPT !.ret = SelectSeq(detected[2], truthy)]
    /\ pc' = "exit"
    /\ UNCHANGED <<colums_head, fs, handles, outcome, rows_in, found, app>>

\* header_row_number, column_to_index: the locals both readers start with
DetectedColumns ==
    LET detected == find_header_row_from_rows(first_rows(frame.backend, Sheet), ScanRows)
        headers == [i \in 1..Len(detected[2]) |-> norm_text(detected[2][i])]
    IN  [header_row_number |-> detected[1],
         column_to_index |-> map_columns_to_indexes(headers)]

Body_get_unique_values ==
    /\ pc = "body" /\ frame.op = "get_unique_values"
    /\ LET loc == DetectedColumns
       IN  IF frame.args.column_name \notin DOMAIN loc.column_to_index
           THEN /\ frame' = [frame EXCEPT
                               !.exc = Error("ColumnNotFound", frame.args.column_name)]
                /\ pc' = "exit"
           ELSE /\ frame' = [frame EXCEPT !.loc = loc]
                /\ pc' = "scan"
    /\ UNCHANGED <<colums_head, fs, handles, outcome, rows_in, found, app>>

Scan_get_unique_values ==
    /\ pc = "scan" /\ frame.op = "get_unique_values"
    /\ LET st == unique_loop(frame.backend, Sheet, frame.loc.header_row_number + 1,
                             frame.loc.column_to_index[frame.args.column_name],
                             frame.args.limit, unique_start)
       IN  frame' = [frame EXCEPT !.scanned = st.scanned, !.exc = st.exc,
                                  !.ret = IF st.exc = NoExc THEN st.result_values
                                          ELSE NoRet]
    /\ pc' = "exit"
    /\ UNCHANGED <<colums_head, fs, handles, outcome, rows_in, found, app>>

\* column_to_index[request.filter_column], [column_to_index[col] for col in
\* colums_head]: NoExc, or the KeyError of the first lookup of a missing key
lookup_error(column_to_index, filter_column) ==
    LET looked_up == <<filter_column>> \o colums_head
        absent == {k \in 1..Len(looked_up) : looked_up[k] \notin DOMAIN column_to_index}
    IN  IF absent = {} THEN NoExc
        ELSE Error("KeyError", looked_up[CHOOSE k \in absent : \A j \in absent : k <= j])

Body_filter_rows ==
    /\ pc = "body" /\ frame.op = "filter_rows"
    /\ LET loc == DetectedColumns
           invalid == validate_columns(loc.column_to_index, frame.args.filter_column)
           failed == IF invalid # NoExc THEN invalid
                     ELSE lookup_error(loc.column_to_index, frame.args.filter_column)
       IN  IF failed # NoExc
           THEN /\ frame' = [frame EXCEPT !.exc = failed]
                /\ pc' = "exit"
           ELSE /\ frame' = [frame EXCEPT !.loc = loc]
                /\ pc' = "scan"
    /\ UNCHANGED <<colums_head, fs, handles, outcome, rows_in, found, app>>

Scan_filter_rows ==
    /\ pc = "scan" /\ frame.op = "filter_rows"
    /\ LET column_to_index == frame.loc.column_to_index
           keep_col_indices == [k \in 1..Len(colums_head) |-> column_to_index[colums_head[k]]]
           st == filter_loop(frame.backend, Sheet, frame.loc.header_row_number + 1,
                             column_to_index[frame.args.filter_column], keep_col_indices,
                             casefold_text(frame.args.filter_value), filter_start)
       IN  frame' = [frame EXCEPT !.scanned = st.scanned, !.exc = st.exc,
                                  !.ret = IF st.exc = NoExc
                                          THEN <<colums_head, st.result_rows>>
                                          ELSE NoRet]
    /\ pc' = "exit"
    /\ UNCHANGED <<colums_head, fs, handles, outcome, rows_in, found, app>>

Body_save_xlsx ==
    /\ pc = "body" /\ frame.op = "save_xlsx"
    /\ fs' = [fs EXCEPT ![frame.args.output_path] =
                 Workbook(written_sheet(frame.args.headers, frame.args.rows), "filter_rows")]
    /\ frame' = [frame EXCEPT !.ret = None]
    /\ pc' = "exit"
    /\ UNCHANGED <<colums_head, handles, outcome, rows_in, found, app>>

\* __exit__, then the return, or the exception leaving the call
Exit ==
    /\ pc = "exit"
    /\ LET left == cm_exit(handles, frame.handle, frame.exc)
       IN  /\ handles' = left.handles
           /\ outcome' = IF frame.exc # NoExc /\ ~left.suppress
                         THEN Raised(frame.op, frame.args, frame.exc, frame.scanned)
                         ELSE Returned(frame.op, frame.args, frame.ret, frame.scanned)
    /\ pc' = "idle"
    /\ frame' = NoFrame
    /\ UNCHANGED <<colums_head, fs, rows_in, found, app>>

(***************************************************************************)
(* ExcelService calls run from __enter__ to return or raise in one step,   *)
(* as a handler of App sees them: [exc, value].                            *)
(***************************************************************************)
Call(exc, value) == [exc |-> exc, value |-> value]

read_headers(exel_path) ==
    LET backend == get_excel_format(exel_path)
    IN  IF IsError(backend) THEN Call(backend, NoRet)
        ELSE IF fs[exel_path] = NoFile
        THEN Call(Error("FileNotFound", exel_path), NoRet)
        ELSE LET detected == find_header_row_from_rows(
                                 first_rows(backend.name, fs[exel_path].rows), ScanRows)
             IN  Call(NoExc, SelectSeq(detected[2], truthy))

\* header_row_number and column_to_index of a sheet
detected_columns(backend, sheet) ==
    LET detected == find_header_row_from_rows(first_rows(backend, sheet), ScanRows)
        headers == [i \in 1..Len(detected[2]) |-> norm_text(detected[2][i])]
    IN  [header_row_number |-> detected[1],
         column_to_index |-> map_columns_to_indexes(headers)]

\* filter_rows from validate_columns on, loc holding its locals
filter_rows_validated(backend, sheet, loc, request) ==
    LET invalid == validate_columns(loc.column_to_index, request.filter_column)
        failed == IF invalid # NoExc THEN invalid
                  ELSE lookup_error(loc.column_to_index, request.filter_column)
    IN  IF failed # NoExc THEN Call(failed, NoRet)
        ELSE LET st == filter_loop(
                           backend, sheet, loc.header_row_number + 1,
                           loc.column_to_index[request.filter_column],
                           [k \in 1..Len(colums_head) |->
                               loc.column_to_index[colums_head[k]]],
                           casefold_text(request.filter_value), filter_start)
             IN  IF st.exc # NoExc THEN Call(st.exc, NoRet)
                 ELSE Call(NoExc, <<colums_head, st.result_rows>>)

filter_rows(request) ==
    IF fs[request.input_path] = NoFile
    THEN Call(Error("FileNotFound", request.input_path), NoRet)
    ELSE LET engine == get_excel_format(request.input_path)
         IN  IF IsError(engine) THEN Call(engine, NoRet)
             ELSE LET sheet == fs[request.input_path].rows
                      calls == {filter_rows_validated(engine.name, sheet, loc, request) :
                                   loc \in {detected_columns(engine.name, sheet)}}
                  IN  CHOOSE call \in calls : TRUE

\* the file system after save_xlsx, which App calls with a checked suffix
save_xlsx(output_path, headers, rows) ==
    IF save_xlsx_suffix_error(output_path) # NoExc THEN fs
    ELSE [fs EXCEPT ![output_path] = Workbook(written_sheet(headers, rows), "filter_rows")]

(***************************************************************************)
(* The window App: its attributes and the widgets' state after __init__,   *)
(* and its three handlers.  filter_rows_call is the history of the         *)
(* filter_rows calls made since a file was last selected: None, or the     *)
(* last one's request and what it gave.                                    *)
(***************************************************************************)
List(items) == [t |-> "list", items |-> items]

app_initial ==
    [input_file_path |-> None,
     filtered_headers |-> None,
     filtered_rows |-> None,
     filter_button_enabled |-> FALSE,
     save_button_enabled |-> FALSE,
     filter_column_combo |-> <<>>,
     filter_rows_call |-> None]

\* open_input_file that keeps the stored result and the Save button as they are
open_input_file_keeps_result(a, selected_path) ==
    [a EXCEPT !.input_file_path = selected_path]

\* open_input_file, from the dialog's answer to the try statement
open_input_file_selected(a, selected_path) ==
    [a EXCEPT !.input_file_path = selected_path,
              !.filtered_headers = None,
              !.filtered_rows = None,
              !.save_button_enabled = FALSE]

open_input_file(selected_path) ==
    /\ IF selected_path = None THEN UNCHANGED app
       ELSE \E read \in {read_headers(selected_path)} :
            LET selected == open_input_file_selected(app, selected_path)
            IN  app' = IF read.exc = NoExc
                       THEN [selected EXCEPT !.filter_column_combo = read.value,
                                             !.filter_button_enabled = TRUE,
                                             !.filter_rows_call = None]
                       ELSE [selected EXCEPT !.filter_button_enabled = FALSE,
                                             !.filter_rows_call = None]
    /\ UNCHANGED <<colums_head, engine_vars, rows_in, found>>

\* apply_filter: the except branch
apply_filter_failed(a) == [a EXCEPT !.save_button_enabled = FALSE]

\* apply_filter: the try branch after filter_rows returned
apply_filter_returned(a, headers, rows) ==
    [a EXCEPT !.filtered_headers = List(headers),
              !.filtered_rows = List(rows),
              !.save_button_enabled = TRUE]

\* the Filter button clicked with current_text shown in the combo box and
\* filter_value typed in the line edit
apply_filter(current_text, filter_value) ==
    /\ app.filter_button_enabled
    /\ current_text \in Range(app.filter_column_combo) \cup
                        (IF app.filter_column_combo = <<>> THEN {Str(<<>>)} ELSE {})
    /\ LET filter_column == Str(strip(current_text.s))
           request == [input_path |-> app.input_file_path,
                       filter_column |-> filter_column,
                       filter_value |-> filter_value]
       IN  IF app.input_file_path = None \/ ~truthy(filter_column) THEN UNCHANGED app
           ELSE \E call \in {filter_rows(request)} :
                LET handled == IF call.exc = NoExc
                               THEN apply_filter_returned(app, call.value[1], call.value[2])
                               ELSE apply_filter_failed(app)
                IN  app' = [handled EXCEPT !.filter_rows_call =
                               [request |-> request, exc |-> call.exc,
                                headers |-> IF call.exc = NoExc THEN List(call.value[1])
                                            ELSE None,
                                rows |-> IF call.exc = NoExc THEN List(call.value[2])
                                         ELSE None]]
    /\ UNCHANGED <<colums_head, engine_vars, rows_in, found>>

\* Path.with_suffix
with_suffix(path, suffix) == Path(path.stem, suffix)

\* the Save button clicked, selected_path chosen in the dialog and answer given
\* to the question about overwriting
save_filtered_result(selected_path, answer) ==
    /\ app.save_button_enabled
    /\ IF \/ app.filtered_headers = None \/ app.filtered_headers.items = <<>>
          \/ app.filtered_rows = None
          \/ selected_path = None
       THEN UNCHANGED fs
       ELSE LET output_path == IF lower(selected_path.suffix) # <<".","x","l","s","x">>
                               THEN with_suffix(selected_path, <<".","x","l","s","x">>)
                               ELSE selected_path
            IN  IF fs[output_path] # NoFile /\ answer # "Yes" THEN UNCHANGED fs
                ELSE fs' = save_xlsx(output_path, app.filtered_headers.items,
                                     app.filtered_rows.items)
    /\ UNCHANGED <<colums_head, handles, pc, frame, outcome, rows_in, found, app>>

(***************************************************************************)
(* SpecDetect: the header detector applied to bounded row sequences.       *)
(***************************************************************************)
NotRun == [t |-> "NotRun"]

\* rows a detector input is made of
RowExact == colums_head_initial
RowNoisy == <<Str(<<" ","o","t","d","e","l"," ">>), FIO, None,
              Str(<<"D","O","L","Z","H","N","O","S","T">>), DataNajma,
              Str(<<"z","a","r","p","l","a","t","a","\t">>), Int_(5)>>
RowFour == <<FIO, Dolzhnost, Otdel, DataNajma>>
RowTwoA == <<Str(<<"f","i","o">>), Otdel>>
RowTwoB == <<Zarplata, None, Str(<<"O","t","d","e","l"," ">>), Str(<<"x">>)>>
RowJunk == <<Str(<<"R","e","p","o","r","t">>), None, Float(2, 5)>>
RowEmpty == <<>>

DetectRowPool == {RowExact, RowNoisy, RowFour, RowTwoA, RowTwoB, RowJunk, RowEmpty}

SeqsUpTo(S, n) == UNION {[1..k -> S] : k \in 0..n}

\* leading junk rows that push the chosen rows towards and past the scan cap
PadChoices == {0, ScanRows - 2, ScanRows - 1, ScanRows}

Pad(k) == [i \in 1..k |-> RowJunk]

InitDetect ==
    /\ colums_head = colums_head_initial
    /\ fs = [p \in Paths |-> NoFile]
    /\ handles = {}
    /\ pc = "idle"
    /\ frame = NoFrame
    /\ outcome = NoOutcome
    /\ \E k \in PadChoices : \E tail \in SeqsUpTo(DetectRowPool, MaxDetectRows) :
           rows_in = Pad(k) \o tail
    /\ found = NotRun
    /\ app = app_initial

Detect ==
    /\ found = NotRun
    /\ found' = find_header_row_from_rows(rows_in, ScanRows)
    /\ UNCHANGED <<colums_head, rows_in, engine_vars, app>>

NextDetect == Detect

SpecDetect == InitDetect /\ [][NextDetect]_vars

(***************************************************************************)
(* Spec: the engine called on bounded input files.                         *)
(***************************************************************************)
Sales == <<"S","a","l","e","s">>
Extra == Str(<<"E","x","t","r","a">>)

\* header rows
HdrExact == [i \in 1..Len(colums_head_initial) |-> CText(colums_head_initial[i].s)]
HdrPermuted == <<CText(<<" ">> \o Otdel.s \o <<" ">>), CText(FIO.s), CText(Extra.s),
                 CText(Dolzhnost.s), CText(DataNajma.s), CText(Zarplata.s \o <<"\t">>)>>
HdrFour == <<CText(FIO.s), CText(Dolzhnost.s), CText(Otdel.s), CText(DataNajma.s)>>
HdrCaseOnly == <<CText(<<"f","i","o">>), CText(Dolzhnost.s), CText(Otdel.s),
                 CText(DataNajma.s), CText(<<"Z","A","R","P","L","A","T","A">>)>>
Title == <<CText(<<"R","e","p","o","r","t">>), CEmpty, CNumber(2, 5)>>

\* the rows of a sheet up to and including its header row, if it has one
HeaderParts == {<<>>, <<HdrExact>>, <<Title, <<>>, HdrPermuted>>, <<HdrFour>>, <<HdrCaseOnly>>}

\* data rows
DataAnn == <<CText(Sales), CText(<<"A","n","n">>), CText(<<"s","a","l","e","s"," ">>),
             CDate(1), CNumber(5, 0), CNumber(5, 0)>>
DataBob == <<CText(Sales \o <<"2">>), CText(<<"B","o","b">>), CText(<<"I","T">>),
             CEmpty, CNumber(2, 5)>>
DataCy == <<CText(<<" ","s","a","l","e","s">>), CText(<<"C","y">>)>>
\* a date cell whose serial no datetime can hold
DataEve == <<CText(<<"S","A","L","E","S">>), CText(<<"E","v","e">>), CText(Sales),
             CDate(9999999), CNumber(5, 0), CText(<<"5">>)>>

DataRows(path) ==
    {DataAnn, DataBob, DataCy} \cup (IF path = InXls THEN {DataEve} ELSE {})

UniqueColumns == {Otdel, DataNajma, Extra}
FilterColumns == {Otdel, Zarplata, Extra}
FilterValues == {<<" ","S","A","L","E","S"," ">>, <<"5">>}

FilterRequest(input_path, filter_column, filter_value) ==
    [input_path |-> input_path, filter_column |-> filter_column,
     filter_value |-> Str(filter_value)]

\* the calls made: every argument combination on the two input paths, one on
\* each other path
UniqueCalls ==
    {<<path, column_name, limit>> :
        path \in {InXlsx, InXls}, column_name \in UniqueColumns, limit \in 0..MaxLimit}
    \cup {<<path, Otdel, MaxLimit>> : path \in Paths}

FilterCalls ==
    {FilterRequest(path, column, value) :
        path \in {InXlsx, InXls}, column \in FilterColumns, value \in FilterValues}
    \cup {FilterRequest(path, Otdel, <<" ","S","A","L","E","S"," ">>) : path \in Paths}

\* a workbook already at the output path
Stale == Workbook(<<Title>>, "given")

Init ==
    /\ colums_head = colums_head_initial
    /\ \E path \in {InXlsx, InXls} : \E head \in HeaderParts :
       \E data \in SeqsUpTo(DataRows(path), MaxRows) :
           fs = [p \in Paths |->
                    IF p = path THEN Workbook(head \o data, "given")
                    ELSE IF p = InCsv THEN Workbook(<<>>, "given")
                    ELSE IF p = OutXlsx THEN Stale
                    ELSE NoFile]
    /\ handles = {}
    /\ pc = "idle"
    /\ frame = NoFrame
    /\ outcome = NoOutcome
    /\ rows_in = <<>>
    /\ found = NotRun
    /\ app = app_initial

Next ==
    \/ \E path \in Paths : Call_read_headers(path)
    \/ \E call \in UniqueCalls : Call_get_unique_values(call[1], call[2], call[3])
    \/ \E request \in FilterCalls : Call_filter_rows(request)
    \/ \E path \in {OutXlsx, OutXlsm} : Call_save_xlsx(path)
    \/ Enter
    \/ Body_read_headers
    \/ Body_get_unique_values
    \/ Scan_get_unique_values
    \/ Body_filter_rows
    \/ Scan_filter_rows
    \/ Body_save_xlsx
    \/ Exit

Spec == Init /\ [][Next]_vars

(***************************************************************************)
(* SpecCaller: the engine under a caller that changes, in place, the       *)
(* header list filter_rows returned.  filter_rows returns the list object  *)
(* colums_head itself, so the change is made to colums_head.               *)
(***************************************************************************)
\* the in-place changes the caller makes: headers.pop(), headers.append("Extra")
HeaderEdits == {"pop", "append"}

edited_headers(headers, edit) ==
    IF edit = "pop" THEN SubSeq(headers, 1, Len(headers) - 1)
    ELSE Append(headers, Extra)

\* the caller edits the list it holds from the filter_rows that has just
\* returned (made once: the list is edited while it still is the initial one)
Caller_edits_headers(edit) ==
    /\ pc = "idle"
    /\ outcome.op = "filter_rows" /\ outcome.status = "returned"
    /\ colums_head = colums_head_initial
    /\ colums_head' = edited_headers(colums_head, edit)
    /\ outcome' = [outcome EXCEPT !.value = <<colums_head', @[2]>>]
    /\ UNCHANGED <<fs, handles, pc, frame, rows_in, found, app>>

NextCaller ==
    \/ Next
    \/ \E edit \in HeaderEdits : Caller_edits_headers(edit)

SpecCaller == Init /\ [][NextCaller]_vars

(***************************************************************************)
(* SpecDup: the engine called on input files whose header row has an       *)
(* empty cell and names one column twice.                                  *)
(***************************************************************************)
\* "Otdel" heads the first column and, written with spaces, the fifth
HdrDup == <<CText(Otdel.s), CText(FIO.s), CEmpty, CText(Dolzhnost.s),
            CText(<<" ">> \o Otdel.s \o <<" ">>), CText(DataNajma.s), CText(Zarplata.s)>>

InitDup ==
    /\ colums_head = colums_head_initial
    /\ \E path \in {InXlsx, InXls} : \E data \in SeqsUpTo(DataRows(path), MaxRows) :
           fs = [p \in Paths |->
                    IF p = path THEN Workbook(<<HdrDup>> \o data, "given")
                    ELSE IF p = InCsv THEN Workbook(<<>>, "given")
                    ELSE IF p = OutXlsx THEN Stale
                    ELSE NoFile]
    /\ handles = {}
    /\ pc = "idle"
    /\ frame = NoFrame
    /\ outcome = NoOutcome
    /\ rows_in = <<>>
    /\ found = NotRun
    /\ app = app_initial

SpecDup == InitDup /\ [][Next]_vars

(***************************************************************************)
(* SpecApp: the window App used on two input files.                        *)
(***************************************************************************)
\* the sheets of data.XLS: one that filter_rows rejects, one it reads, one with
\* a date it cannot decode in a row that some filter values reach
XlsSheets == {<<HdrFour, DataAnn>>, <<Title, <<>>, HdrPermuted, DataAnn, DataCy>>,
              <<HdrExact, DataAnn, DataEve>>}

\* what the user picks in the dialogs (None: the dialog is cancelled)
OpenSelections == {None, InXlsx, InXls, InCsv}
SaveSelections == {None, OutXlsx, Path("data", <<".","x","l","s","m">>)}
Answers == {"Yes", "No"}
TypedValues == {Str(value) : value \in FilterValues}
ComboTexts == {Str(<<>>)} \cup Range(colums_head_initial) \cup {Extra}

InitApp ==
    /\ colums_head = colums_head_initial
    /\ \E data \in SeqsUpTo(DataRows(InXlsx), MaxRows) : \E sheet \in XlsSheets :
           fs = [p \in Paths |->
                    IF p = InXlsx THEN Workbook(<<HdrExact>> \o data, "given")
                    ELSE IF p = InXls THEN Workbook(sheet, "given")
                    ELSE IF p = InCsv THEN Workbook(<<>>, "given")
                    ELSE NoFile]
    /\ handles = {}
    /\ pc = "idle"
    /\ frame = NoFrame
    /\ outcome = NoOutcome
    /\ rows_in = <<>>
    /\ found = NotRun
    /\ app = app_initial

NextApp ==
    \/ \E selected_path \in OpenSelections : open_input_file(selected_path)
    \/ \E current_text \in ComboTexts : \E filter_value \in TypedValues :
           apply_filter(current_text, filter_value)
    \/ \E selected_path \in SaveSelections : \E answer \in Answers :
           save_filtered_result(selected_path, answer)

SpecApp == InitApp /\ [][NextApp]_vars

(***************************************************************************)
(* Claims about the header detector (checked under SpecDetect).            *)
(***************************************************************************)
Min(a, b) == IF a <= b THEN a ELSE b
Least(S) == CHOOSE i \in S : \A j \in S : i <= j

\* the case-folded, trimmed, non-empty cell values of a row
CellNames(row) == {casefold_text(v) : v \in Range(row)} \ {Str(<<>>)}
FiveNames == {casefold_text(c) : c \in Range(colums_head_initial)}
IsPerfectRow(row) == FiveNames \subseteq CellNames(row)
OverlapScore(row) == Cardinality(FiveNames \cap CellNames(row))
TrimmedRow(row) ==
    [i \in 1..Len(row) |->
        IF row[i] = None THEN Str(<<>>) ELSE Str(strip(py_str(row[i])))]

PerfectWithin(n) == {i \in 1..Min(Len(rows_in), n) : IsPerfectRow(rows_in[i])}

\* C1 (as stated): whenever the row sequence contains a perfect row anywhere,
\* the detector returns the first perfect row: its 1-based position and its
\* trimmed cell strings.
C1_AnyPerfectRowReturned ==
    (found # NotRun /\ PerfectWithin(Len(rows_in)) # {}) =>
        LET i == Least(PerfectWithin(Len(rows_in)))
        IN  found = <<i, TrimmedRow(rows_in[i])>>

\* C1 (amended): whenever one of the first 50 rows is a perfect row, the
\* detector returns the first perfect row: its 1-based position and its
\* trimmed, non-case-folded cell strings.
C1_PerfectRowInScanReturned ==
    (found # NotRun /\ PerfectWithin(ScanRows) # {}) =>
        LET i == Least(PerfectWithin(ScanRows))
        IN  found = <<i, TrimmedRow(rows_in[i])>>

\* two perfect rows inside the scanned range, the first not on row 1 and
\* written with case and whitespace noise, and the detector returned the first
C1_Witness ==
    /\ found # NotRun
    /\ \E i, j \in PerfectWithin(ScanRows) :
           /\ 1 < i /\ i < j
           /\ i = Least(PerfectWithin(ScanRows))
           /\ rows_in[i] = RowNoisy
           /\ found[1] = i

\* the overlap score of each of the first n rows
ScoresOf(n) == [i \in 1..Min(Len(rows_in), n) |-> OverlapScore(rows_in[i])]
MaxOf(S) == CHOOSE m \in S : \A k \in S : k <= m

\* C2: with no perfect row among the first 50 rows the detector returns the
\* earliest row of maximal overlap score among the first min(n, 50) rows (its
\* position and trimmed cell strings), never a row after the 50th; for no
\* rows at all it returns position 1 and an empty header list.
C2_BestRowFirstWins ==
    (found # NotRun /\ PerfectWithin(ScanRows) = {}) =>
        IF rows_in = <<>>
        THEN found = <<1, <<>>>>
        ELSE LET sc == ScoresOf(ScanRows)
                 best == MaxOf(Range(sc))
                 i == Least({k \in DOMAIN sc : sc[k] = best})
             IN  found = <<i, TrimmedRow(rows_in[i])>>

\* no perfect row, two scanned rows tie on the best score, a row past the
\* 50th scores higher, and the earlier of the tied rows was returned
C2_Witness ==
    /\ found # NotRun
    /\ Len(rows_in) > ScanRows
    /\ PerfectWithin(ScanRows) = {}
    /\ LET sc == ScoresOf(ScanRows + 1)
           best == MaxOf({sc[k] : k \in 1..ScanRows})
       IN  /\ sc[ScanRows + 1] > best
           /\ \E i, j \in 1..ScanRows :
                  /\ 1 < i /\ i < j
                  /\ sc[i] = best /\ sc[j] = best
                  /\ \A k \in 1..(i - 1) : sc[k] < best
                  /\ found[1] = i


(***************************************************************************)
(* Claims about the engine (checked under Spec).                           *)
(***************************************************************************)
\* what a claim says of the sheet behind a path: the reader the extension
\* selects, the detected header row, its trimmed labels
BackendOf(path) == get_excel_format(path).name
SheetOf(path) == fs[path].rows
Readable(path) == fs[path] # NoFile /\ ~IsError(get_excel_format(path))
HeaderOf(path) ==
    LET detected == find_header_row_from_rows(first_rows(BackendOf(path), SheetOf(path)),
                                              ScanRows)
    IN  [row |-> detected[1], labels |-> detected[2]]
\* the keys of the column index map: the non-empty labels
LabelsOf(path) == {h \in Range(HeaderOf(path).labels) : h # Str(<<>>)}
\* 0-based position of a label in the header row (of its last occurrence)
LabelIndex(path, name) ==
    LET labels == HeaderOf(path).labels
        at == {i \in 1..Len(labels) : labels[i] = name}
    IN  (CHOOSE i \in at : \A j \in at : j <= i) - 1
\* the data rows: the 1-based sheet rows after the header row, in order
DataRowsOf(path) ==
    LET h == HeaderOf(path).row
    IN  [k \in 1..(IF Len(SheetOf(path)) > h THEN Len(SheetOf(path)) - h ELSE 0) |-> h + k]
\* the decoded value of a column in a data row, None beyond the row's length
ValueAt(path, r, index) ==
    LET v == column_value(BackendOf(path), SheetOf(path), r, index)
    IN  IF v = Absent THEN None ELSE v
\* text as compared: trimmed and case-folded
Folded(value) == casefold(strip(IF value = None THEN <<>> ELSE py_str(value)))

FilterReturned == outcome.op = "filter_rows" /\ outcome.status = "returned"

ExpectedFilterRows(request) ==
    LET path == request.input_path
        matching == SelectSeq(DataRowsOf(path),
                        LAMBDA r : Folded(ValueAt(path, r, LabelIndex(path, request.filter_column)))
                                     = Folded(request.filter_value))
    IN  [k \in 1..Len(matching) |->
            [c \in 1..Len(colums_head_initial) |->
                ValueAt(path, matching[k], LabelIndex(path, colums_head_initial[c]))]]

\* C3: when filter_rows succeeds its row list is exactly, in source order and
\* with every data row after the header row read, the rows whose filter-column
\* value equals the filter value after trimming and case-folding (whole value),
\* each projected onto the five expected columns in the fixed order, None
\* standing for a column beyond the row's length.
C3_FilterRowsExact ==
    FilterReturned =>
        /\ outcome.value[2] = ExpectedFilterRows(outcome.args)
        /\ outcome.scanned = Len(DataRowsOf(outcome.args.input_path))

\* a permuted header on row 3; the row "Sales2" is left out, the short row
\* " sales" is kept for the filter value " SALES " with None for its missing cells
C3_Witness ==
    /\ FilterReturned
    /\ outcome.args = FilterRequest(InXlsx, Otdel, <<" ","S","A","L","E","S"," ">>)
    /\ SheetOf(InXlsx) = <<Title, <<>>, HdrPermuted, DataBob, DataCy>>
    /\ outcome.value[2] = <<<<Str(<<"C","y">>), None, Str(<<" ","s","a","l","e","s">>),
                              None, None>>>>


UniqueReturned == outcome.op = "get_unique_values" /\ outcome.status = "returned"

\* C4: get_unique_values never returns more than limit entries and never two
\* entries that are equal after case-folding.
C4_UniqueWithinLimit ==
    UniqueReturned =>
        /\ Len(outcome.value) <= outcome.args.limit
        /\ \A i, j \in 1..Len(outcome.value) :
               i # j => casefold(outcome.value[i].s) # casefold(outcome.value[j].s)

\* the data rows (as positions in DataRowsOf) that bring a new value of the
\* column: not blank, and equal to no earlier value after case-folding
FirstSeen(path, column_name) ==
    LET rows == DataRowsOf(path)
        index == LabelIndex(path, column_name)
        decodes(k) == ~IsError(ValueAt(path, rows[k], index))
        key(k) == Folded(ValueAt(path, rows[k], index))
    IN  SelectSeq([k \in 1..Len(rows) |-> k],
                  LAMBDA k : /\ decodes(k)
                             /\ key(k) # <<>>
                             /\ \A j \in 1..(k - 1) : decodes(j) => key(j) # key(k))

\* C5: get_unique_values returns the non-empty trimmed values of the column
\* from the rows after the header row in first-seen order (first-seen casing),
\* skipping blanks and case-insensitive repeats, and stops scanning as soon as
\* limit distinct values have been collected.
C5_UniqueFirstSeenUpToLimit ==
    UniqueReturned =>
        LET path == outcome.args.exel_path
            limit == outcome.args.limit
            rows == DataRowsOf(path)
            first == FirstSeen(path, outcome.args.column_name)
            taken == Min(limit, Len(first))
        IN  /\ outcome.value =
                   [k \in 1..taken |->
                       norm_text(ValueAt(path, rows[first[k]],
                                         LabelIndex(path, outcome.args.column_name)))]
            /\ outcome.scanned = IF Len(first) >= limit
                                 THEN (IF limit = 0 THEN 0 ELSE first[limit])
                                 ELSE Len(rows)


\* the path and the column a finished get_unique_values or filter_rows was given
ReadPath ==
    IF outcome.op = "filter_rows" THEN outcome.args.input_path ELSE outcome.args.exel_path
ReadColumn ==
    IF outcome.op = "filter_rows" THEN outcome.args.filter_column
    ELSE outcome.args.column_name
\* the call got as far as building the column index map
ColumnsMapped ==
    outcome.op \in {"get_unique_values", "filter_rows"} /\ Readable(ReadPath)

\* C6: in get_unique_values and in filter_rows a column name that is no key of
\* the column index map raises ColumnNotFound naming it, before the data loop
\* has read any row after the header row, and nothing is returned.
C6_ColumnNotFoundBeforeScan ==
    (ColumnsMapped /\ ReadColumn \notin LabelsOf(ReadPath)) =>
        outcome = Raised(outcome.op, outcome.args, Error("ColumnNotFound", ReadColumn), 0)

\* filter_rows by "Зарплата" on a sheet whose header row lacks it (and is
\* followed by data rows) raised ColumnNotFound with no data row read
C6_Witness ==
    /\ outcome.op = "filter_rows"
    /\ outcome.status = "raised"
    /\ outcome.exc = Error("ColumnNotFound", Zarplata)
    /\ Readable(ReadPath)
    /\ HeaderOf(ReadPath).labels = <<FIO, Dolzhnost, Otdel, DataNajma>>
    /\ Len(DataRowsOf(ReadPath)) = MaxRows
    /\ outcome.scanned = 0

\* the expected columns that are no key of the column index map, in order
MissingOf(path) ==
    SelectSeq(colums_head_initial, LAMBDA col : col \notin LabelsOf(path))

FilterValidated == outcome.op = "filter_rows" /\ Readable(outcome.args.input_path)

\* C7 (as stated): whatever the filter-column check finds, whenever an expected
\* column is absent from the column index map filter_rows fails with
\* MissingRequiredColumns naming exactly the absent expected columns, before
\* any data row is scanned.
C7_MissingColumnsAlwaysReported ==
    (FilterValidated /\ MissingOf(outcome.args.input_path) # <<>>) =>
        outcome = Raised("filter_rows", outcome.args,
                         Error("MissingRequiredColumns", MissingOf(outcome.args.input_path)),
                         0)

\* C7 (amended): when the filter column is a key of the column index map and
\* an expected column is absent from it, filter_rows fails with
\* MissingRequiredColumns naming exactly the absent expected columns, before
\* any data row is scanned.
C7_MissingColumnsReportedAfterFilterCheck ==
    (/\ FilterValidated
     /\ outcome.args.filter_column \in LabelsOf(outcome.args.input_path)
     /\ MissingOf(outcome.args.input_path) # <<>>) =>
        outcome = Raised("filter_rows", outcome.args,
                         Error("MissingRequiredColumns", MissingOf(outcome.args.input_path)),
                         0)

\* a header row spelling two expected names in another case: filter_rows by
\* "Отдел" names both as missing, with data rows left unread
C7_Witness ==
    /\ outcome.op = "filter_rows"
    /\ outcome.status = "raised"
    /\ outcome.args.filter_column = Otdel
    /\ outcome.exc = Error("MissingRequiredColumns", <<FIO, Zarplata>>)
    /\ Len(DataRowsOf(outcome.args.input_path)) = MaxRows
    /\ outcome.scanned = 0


\* the extension is .xlsx when compared without regard to case
HasXlsxExtension(path) == casefold(path.suffix) = <<".","x","l","s","x">>
\* the value read back from row r, column j of a written sheet
ReadBack(sheet, r, j) ==
    IF j <= Len(sheet[r]) THEN openpyxl_value(sheet[r][j]) ELSE None
\* a sheet holds exactly the given row lists, one per sheet row, in order
HoldsRows(sheet, row_lists) ==
    /\ Len(sheet) = Len(row_lists)
    /\ \A r \in 1..Len(row_lists) :
           /\ Len(sheet[r]) <= Len(row_lists[r])
           /\ \A j \in 1..Len(row_lists[r]) : ReadBack(sheet, r, j) = row_lists[r][j]

\* C8: save_xlsx to a path whose extension is not .xlsx (case-insensitively)
\* raises InvalidOutputFormat, no NewWorkbook is ever created for such a path
\* and nothing is written to it; to any other path it returns, and the file at
\* that path is then a single sheet holding the header row followed by every
\* data row in the given order, whatever was at the path before.
C8_SaveXlsx ==
    /\ \A p \in Paths : ~HasXlsxExtension(p) =>
           /\ fs[p] = NoFile \/ fs[p].origin = "given"
           /\ Handle("NewWorkbook", p) \notin handles
           /\ frame.op = "save_xlsx" => frame.args.output_path # p
    /\ outcome.op = "save_xlsx" =>
           IF HasXlsxExtension(outcome.args.output_path)
           THEN /\ outcome = Returned("save_xlsx", outcome.args, None, 0)
                /\ fs[outcome.args.output_path] # NoFile
                /\ HoldsRows(fs[outcome.args.output_path].rows,
                             <<outcome.args.headers>> \o outcome.args.rows)
           ELSE outcome = Raised("save_xlsx", outcome.args,
                                 Error("InvalidOutputFormat",
                                       outcome.args.output_path.suffix), 0)

\* two filtered rows, one ending in absent values, saved over the workbook that
\* was at filtered_result.Xlsx
C8_Witness ==
    /\ outcome.op = "save_xlsx"
    /\ outcome.status = "returned"
    /\ outcome.args.output_path = OutXlsx
    /\ Len(outcome.args.rows) = MaxRows
    /\ \E k \in 1..MaxRows : outcome.args.rows[k][Len(colums_head_initial)] = None
    /\ fs[OutXlsx] # Stale

\* the file at a path was written by save_xlsx from what a filter_rows returned
WrittenFromFilter(path) == fs[path] # NoFile /\ fs[path].origin = "filter_rows"

\* C9: read_headers on a file that save_xlsx wrote from the headers and rows a
\* successful filter_rows returned yields exactly the five fixed headers in
\* the fixed order, whatever the filtered rows hold.
C9_RoundTripHeaders ==
    (outcome.op = "read_headers" /\ WrittenFromFilter(outcome.args.exel_path)) =>
        outcome = Returned("read_headers", outcome.args, colums_head_initial, 0)

\* the input had its columns in another order under two leading rows, two rows
\* matched the filter, and read_headers has read the written file
C9_Witness ==
    /\ outcome.op = "read_headers"
    /\ outcome.status = "returned"
    /\ outcome.args.exel_path = OutXlsx
    /\ WrittenFromFilter(OutXlsx)
    /\ Len(fs[OutXlsx].rows) = 1 + MaxRows
    /\ \E p \in {InXlsx, InXls} : fs[p] # NoFile /\ HeaderOf(p).row = 3

\* the step that leaves a with block hands the pending error, if any, to the
\* caller unchanged
ExitKeepsError ==
    (pc = "exit" /\ frame.exc # NoExc) =>
        outcome' = Raised(frame.op, frame.args, frame.exc, frame.scanned)

\* C10: whenever no operation is running (each has returned or raised, on any
\* exit path) no workbook handle is open, and an error pending when the with
\* block is left reaches the caller unchanged.
C10_HandlesReleased ==
    /\ [](pc = "idle" => handles = {})
    /\ [][ExitKeepsError]_vars

\* a date that cannot be decoded stopped a scan of the .XLS file on its second
\* data row; the error reached the caller and the book was released
C10_Witness ==
    /\ pc = "idle"
    /\ outcome.op \in {"get_unique_values", "filter_rows"}
    /\ outcome.status = "raised"
    /\ outcome.exc.kind = "OverflowError"
    /\ outcome.scanned = MaxRows
    /\ handles = {}


(***************************************************************************)
(* Claims about the engine under a caller that edits returned values       *)
(* (checked under SpecCaller).                                             *)
(***************************************************************************)
\* what a call gives on a file when the expected columns are the five labels:
\* the header row detected against the five labels
FreshHeaderOf(path) ==
    LET rows == first_rows(BackendOf(path), SheetOf(path))
        st == header_loop(rows, ScanRows, FiveNames, 1, Len(rows), header_start)
    IN  [row |-> st.row, labels |-> st.headers]
FreshLabelsOf(path) == {h \in Range(FreshHeaderOf(path).labels) : h # Str(<<>>)}
FreshLabelIndex(path, name) ==
    LET labels == FreshHeaderOf(path).labels
        at == {i \in 1..Len(labels) : labels[i] = name}
    IN  (CHOOSE i \in at : \A j \in at : j <= i) - 1
FreshDataRowsOf(path) ==
    LET h == FreshHeaderOf(path).row
    IN  [k \in 1..(IF Len(SheetOf(path)) > h THEN Len(SheetOf(path)) - h ELSE 0) |-> h + k]
FreshMissingOf(path) ==
    SelectSeq(colums_head_initial, LAMBDA col : col \notin FreshLabelsOf(path))
FreshFilterRows(request) ==
    LET path == request.input_path
        at == FreshLabelIndex(path, request.filter_column)
        matching == SelectSeq(FreshDataRowsOf(path),
                        LAMBDA r : Folded(ValueAt(path, r, at)) = Folded(request.filter_value))
    IN  [k \in 1..Len(matching) |->
            [c \in 1..Len(colums_head_initial) |->
                ValueAt(path, matching[k], FreshLabelIndex(path, colums_head_initial[c]))]]

\* the outcome of a finished read_headers is the one the file alone decides
FreshReadHeaders ==
    (outcome.op = "read_headers" /\ Readable(outcome.args.exel_path)) =>
        outcome = Returned("read_headers", outcome.args,
                           SelectSeq(FreshHeaderOf(outcome.args.exel_path).labels, truthy), 0)

\* the outcome of a finished get_unique_values fails on the column exactly
\* when the file alone lacks the column
FreshUniqueValues ==
    (outcome.op = "get_unique_values" /\ Readable(outcome.args.exel_path)) =>
        IF outcome.args.column_name \notin FreshLabelsOf(outcome.args.exel_path)
        THEN outcome = Raised("get_unique_values", outcome.args,
                              Error("ColumnNotFound", outcome.args.column_name), 0)
        ELSE outcome.exc.kind # "ColumnNotFound"

\* the outcome of a finished filter_rows is the one its request and the file
\* alone decide: the validation error, or the five labels and the matching rows
FreshFilterRowsOutcome ==
    (outcome.op = "filter_rows" /\ Readable(outcome.args.input_path)) =>
        LET path == outcome.args.input_path
        IN  IF outcome.args.filter_column \notin FreshLabelsOf(path)
            THEN outcome = Raised("filter_rows", outcome.args,
                                  Error("ColumnNotFound", outcome.args.filter_column), 0)
            ELSE IF FreshMissingOf(path) # <<>>
            THEN outcome = Raised("filter_rows", outcome.args,
                                  Error("MissingRequiredColumns", FreshMissingOf(path)), 0)
            ELSE outcome.status = "returned" =>
                     outcome.value = <<colums_head_initial, FreshFilterRows(outcome.args)>>

\* C11: no engine state persists across calls: after any sequence of calls and
\* any use the caller makes of what they returned, the expected column set is
\* still the five labels in their order, and the outcome of read_headers,
\* get_unique_values and filter_rows is the one the call's arguments and the
\* file contents alone decide.
C11_NoStateAcrossCalls ==
    /\ colums_head = colums_head_initial
    /\ FreshReadHeaders
    /\ FreshUniqueValues
    /\ FreshFilterRowsOutcome


(***************************************************************************)
(* Claims about a duplicated column name (checked under SpecDup).          *)
(***************************************************************************)
\* 0-based position of the first occurrence of a label in the header row
FirstLabelIndex(path, name) ==
    LET labels == HeaderOf(path).labels
    IN  Least({i \in 1..Len(labels) : labels[i] = name}) - 1

\* the column index map the running call built is the one the claim describes
MapsLastOccurrence ==
    pc = "scan" =>
        LET headers == HeaderOf(frame.handle.path).labels
            column_to_index == frame.loc.column_to_index
        IN  /\ DOMAIN column_to_index = {h \in Range(headers) : h # Str(<<>>)}
            /\ \A name \in DOMAIN column_to_index :
                   /\ column_to_index[name] \in 0..(Len(headers) - 1)
                   /\ headers[column_to_index[name] + 1] = name
                   /\ \A i \in (column_to_index[name] + 2)..Len(headers) : headers[i] # name

\* the values get_unique_values returned are those of the last column of the name
UniqueReadsLastColumn ==
    (UniqueReturned /\ outcome.args.limit >= 1) =>
        LET path == outcome.args.exel_path
            rows == DataRowsOf(path)
            first == FirstSeen(path, outcome.args.column_name)
        IN  outcome.value =
                [k \in 1..Min(outcome.args.limit, Len(first)) |->
                    norm_text(ValueAt(path, rows[first[k]],
                                      LabelIndex(path, outcome.args.column_name)))]

\* a column name that is in the header row, twice or once, is not rejected
DuplicateNotRejected ==
    (ColumnsMapped /\ ReadColumn \in LabelsOf(ReadPath)) =>
        /\ outcome.exc.kind # "ColumnNotFound"
        /\ (outcome.op = "filter_rows" /\ MissingOf(ReadPath) = <<>>) =>
               outcome.exc.kind # "MissingRequiredColumns"

\* C12: map_columns_to_indexes maps every non-empty label to a zero-based
\* position holding that label and skips empty labels; a label that occurs
\* more than once is mapped to its last position, filter_rows and
\* get_unique_values read that name from its last column, and no call rejects
\* the duplicate.
C12_DuplicateLabelLastWins ==
    /\ MapsLastOccurrence
    /\ FilterReturned => outcome.value[2] = ExpectedFilterRows(outcome.args)
    /\ UniqueReadsLastColumn
    /\ DuplicateNotRejected

\* filter_rows by the duplicated name for the value "5" kept the row whose last
\* "Otdel" column holds 5 and whose first "Otdel" column holds "Sales"
C12_Witness ==
    /\ FilterReturned
    /\ outcome.args = FilterRequest(InXlsx, Otdel, <<"5">>)
    /\ SheetOf(InXlsx) = <<HdrDup, DataBob, DataAnn>>
    /\ FirstLabelIndex(InXlsx, Otdel) = 0
    /\ LabelIndex(InXlsx, Otdel) = 4
    /\ Len(outcome.value[2]) = 1
    /\ outcome.value[2][1][3] = Int_(5)
    /\ ValueAt(InXlsx, 3, FirstLabelIndex(InXlsx, Otdel)) = Str(Sales)


(***************************************************************************)
(* Claims about the spelling of the header row (checked under Spec).       *)
(***************************************************************************)
\* the header detector gave the header row it returned a perfect score
DetectedPerfect(path) ==
    row_score(HeaderOf(path).labels, expected_norm) = Cardinality(expected_norm)

\* C13: filter_rows returns only if the detected header row holds each of the
\* five expected labels in its exact spelling after trimming; on a header row
\* the detector scores as perfect that lacks one of them in that spelling (it
\* matches only up to case) filter_rows fails column validation and returns
\* nothing.
C13_ExactSpellingRequired ==
    /\ FilterReturned =>
           Range(colums_head_initial) \subseteq LabelsOf(outcome.args.input_path)
    /\ (/\ FilterValidated
        /\ DetectedPerfect(outcome.args.input_path)
        /\ MissingOf(outcome.args.input_path) # <<>>) =>
           /\ outcome.status = "raised"
           /\ outcome.exc.kind \in {"ColumnNotFound", "MissingRequiredColumns"}
           /\ outcome.value = NoRet
           /\ outcome.scanned = 0

\* a header row spelling "fio" and "ZARPLATA" is the detected, perfectly
\* scored header row on row 1, a data row holds the filter value, and
\* filter_rows raised MissingRequiredColumns
C13_Witness ==
    /\ outcome.op = "filter_rows"
    /\ outcome.status = "raised"
    /\ outcome.exc.kind = "MissingRequiredColumns"
    /\ outcome.args.filter_value = Str(<<" ","S","A","L","E","S"," ">>)
    /\ SheetOf(outcome.args.input_path) = <<HdrCaseOnly, DataAnn, DataCy>>
    /\ HeaderOf(outcome.args.input_path).row = 1
    /\ DetectedPerfect(outcome.args.input_path)
    /\ \E r \in {2} : Folded(ValueAt(outcome.args.input_path, r,
                                     LabelIndex(outcome.args.input_path, Otdel)))
                        = Folded(outcome.args.filter_value)


(***************************************************************************)
(* Claims about the window App (checked under SpecApp).                    *)
(***************************************************************************)
\* the last filter_rows call made since the file was selected returned
FilterCallReturned == app.filter_rows_call # None /\ app.filter_rows_call.exc = NoExc

\* with Save enabled the stored headers and rows are those a filter_rows call
\* on the selected file returned
StoredFromSelectedFile ==
    app.save_button_enabled =>
        /\ FilterCallReturned
        /\ app.filter_rows_call.request.input_path = app.input_file_path
        /\ app.filtered_headers = app.filter_rows_call.headers
        /\ app.filtered_rows = app.filter_rows_call.rows

\* once a file is selected, and until filter_rows is called on it, nothing is
\* stored and Save is disabled
SelectionClearsResult ==
    app.filter_rows_call = None =>
        /\ app.filtered_headers = None
        /\ app.filtered_rows = None
        /\ ~app.save_button_enabled

\* after a filter_rows call that raised, Save is disabled
FailedFilterDisablesSave ==
    (app.filter_rows_call # None /\ app.filter_rows_call.exc # NoExc) =>
        ~app.save_button_enabled

\* a step that writes a file writes the headers and rows a filter_rows call on
\* the selected file returned
SaveWritesSelectedFileRows ==
    fs' # fs =>
        /\ FilterCallReturned
        /\ app.filter_rows_call.request.input_path = app.input_file_path
        /\ \E p \in Paths :
               fs' = [fs EXCEPT ![p] =
                         Workbook(written_sheet(app.filter_rows_call.headers.items,
                                                app.filter_rows_call.rows.items),
                                  "filter_rows")]

\* C14: after any sequence of open-file, filter and save actions, whenever
\* Save is enabled the stored headers and rows are those returned by a
\* successful filter_rows call on the selected input file; selecting a file
\* clears the stored result and disables Save, a failed filter disables Save,
\* and Save writes only rows filtered from the selected file.
C14_SaveOnlyCurrentResult ==
    /\ [](StoredFromSelectedFile /\ SelectionClearsResult /\ FailedFilterDisablesSave)
    /\ [][SaveWritesSelectedFileRows]_vars

\* data.xlsx was filtered and the result saved over data.xlsx itself, then
\* data.XLS was selected and filtered with rows found and saved to
\* filtered_result.Xlsx: Save is enabled and the file holds the stored rows
C14_Witness ==
    /\ app.save_button_enabled
    /\ app.input_file_path = InXls
    /\ fs[InXlsx].origin = "filter_rows"
    /\ fs[OutXlsx] # NoFile
    /\ Len(app.filtered_rows.items) >= 1
    /\ fs[OutXlsx].rows = written_sheet(app.filtered_headers.items, app.filtered_rows.items)
    /\ fs[InXlsx].rows # fs[OutXlsx].rows

====
